---- MODULE Spec2Model ----
(***************************************************************************)
(* FirestoreAdminGrpcAsyncIOTransport                                      *)
(* (google/cloud/firestore_admin_v1/services/firestore_admin/transports/   *)
(* grpc_asyncio.py): construction of the transport, the cached channel,    *)
(* the cached operations client and the nine lazily built method stubs.    *)
(*                                                                         *)
(* Python values are records tagged by their type in the field py.         *)
(* Strings are sequences of colon-free chunks and ":" characters, so that  *)
(* the substring test  ":" in s  and string concatenation are computed.    *)
(* Objects made by the external collaborators (channels, stubs, clients)   *)
(* carry an id that names the call that made them: two calls of a factory  *)
(* never return the same object.                                           *)
(***************************************************************************)
EXTENDS Integers, Sequences, FiniteSets, TLC

VARIABLES
    pc,         \* "new": no transport yet; "ready": __init__ returned; "raised": __init__ raised
    inst,       \* number of the transport instance under construction or in use
    args,       \* the arguments the caller gives to __init__
    self,       \* the instance __dict__: attribute name -> value
    cls_stubs,  \* the class attribute FirestoreAdminGrpcAsyncIOTransport._stubs
    base,       \* the arguments __init__ handed to super().__init__, None before the call
    calls,      \* how often this instance called each external collaborator
    ret,        \* the operation that ran last and the value it returned
    reads,      \* how often each property of this instance has been read
    earlier,    \* the stub tables of the instances constructed before this one
    steps,      \* operations performed so far
    running,    \* the coroutine the event loop is running
    co          \* per coroutine: its position inside a property getter

vars ==
    <<pc, inst, args, self, cls_stubs, base, calls, ret, reads, earlier, steps, running, co>>

\* Total number of operations (constructions and property reads) explored.
MaxSteps == 4

\* Number of coroutines sharing one transport on the event loop.
NCoros == 2

\* Number of property reads the coroutines start, all together.
MaxCoReads == 2

-----------------------------------------------------------------------------
(* Python values *)

None == [py |-> "None"]

False == [py |-> "False"]

Str(s) == [py |-> "str", s |-> s]

\* Python truthiness, as used by  if channel: / elif api_mtls_endpoint: /
\* if client_cert_source: / scopes or ... / credentials and credentials_file
Truthy(x) ==
    CASE x.py \in {"None", "False"} -> FALSE
      [] x.py = "str" -> x.s # << >>
      [] OTHER -> TRUE

\* ch in s
Contains(s, ch) == \E i \in DOMAIN s : s[i] = ch

EmptyDict == << >>

DefaultHost == Str(<<"firestore.googleapis.com">>)

AUTH_SCOPES == [py |-> "AUTH_SCOPES"]

-----------------------------------------------------------------------------
(* The values the caller may pass to __init__ *)

Hosts == {DefaultHost, Str(<<"localhost", ":", "8080">>)}

CredentialsArgs == {None, [py |-> "Credentials", id |-> <<0, 0>>]}

CredentialsFileArgs == {None, Str(<<"creds.json">>)}

ScopesArgs == {None}

ChannelArgs == {None, [py |-> "aio.Channel", id |-> <<0, 0>>]}

MtlsEndpointArgs ==
    {None, Str(<<"mtls.googleapis.com">>), Str(<<"mtls.googleapis.com", ":", "8443">>)}

CertSourceArgs == {None, [py |-> "function", id |-> <<0, 0>>]}

InitArgs ==
    [host : Hosts, credentials : CredentialsArgs, credentials_file : CredentialsFileArgs,
     scopes : ScopesArgs, channel : ChannelArgs, api_mtls_endpoint : MtlsEndpointArgs,
     client_cert_source : CertSourceArgs]

Methods ==
    {"create_index", "list_indexes", "get_index", "delete_index", "get_field",
     "update_field", "list_fields", "export_documents", "import_documents"}

Properties == Methods \cup {"grpc_channel", "operations_client"}

NoReads == [p \in Properties |-> 0]

NoCalls ==
    [create_channel |-> 0, client_cert_source |-> 0, OperationsAsyncClient |-> 0,
     unary_unary |-> [m \in Methods |-> 0]]

-----------------------------------------------------------------------------
(* create_channel and __init__ *)

\* create_channel: scopes = scopes or cls.AUTH_SCOPES, then the channel is made by
\* grpc_helpers_async.create_channel from exactly the arguments handed on.
create_channel(id, host, credentials, credentials_file, scopes, ssl_credentials) ==
    [py |-> "aio.Channel", id |-> id, host |-> host, credentials |-> credentials,
     credentials_file |-> credentials_file,
     scopes |-> IF Truthy(scopes) THEN scopes ELSE AUTH_SCOPES,
     ssl_credentials |-> ssl_credentials]

\* Raises: DuplicateCredentialArgs, if both credentials and credentials_file are passed
\* on to the channel factory or to the base constructor.
DuplicateCredentialArgs(credentials, credentials_file) ==
    Truthy(credentials) /\ Truthy(credentials_file)

\* if channel: ... elif api_mtls_endpoint: ...
Branch(channel, api_mtls_endpoint) ==
    IF Truthy(channel) THEN "channel"
    ELSE IF Truthy(api_mtls_endpoint) THEN "mtls"
    ELSE "none"

CredentialsKept(channel, credentials) == credentials

\* if channel: credentials = False
CredentialsAfterBranch(channel, credentials) ==
    IF Truthy(channel) THEN False ELSE credentials

\* host = api_mtls_endpoint if ":" in api_mtls_endpoint else api_mtls_endpoint + ":443"
MtlsHost(api_mtls_endpoint) ==
    IF Contains(api_mtls_endpoint.s, ":")
    THEN api_mtls_endpoint
    ELSE Str(api_mtls_endpoint.s \o <<":", "443">>)

\* the local variable host after the if/elif
HostAfterBranch(host, channel, api_mtls_endpoint) ==
    IF Branch(channel, api_mtls_endpoint) = "mtls" THEN MtlsHost(api_mtls_endpoint) ELSE host

CertSourceCallsEager(channel, api_mtls_endpoint, client_cert_source) ==
    IF Truthy(client_cert_source) THEN 1 ELSE 0

\* how often __init__ invokes client_cert_source()
CertSourceCalls(channel, api_mtls_endpoint, client_cert_source) ==
    IF Branch(channel, api_mtls_endpoint) = "mtls" /\ Truthy(client_cert_source) THEN 1 ELSE 0

\* if client_cert_source: cert, key = client_cert_source();
\*     ssl_credentials = grpc.ssl_channel_credentials(certificate_chain=cert, private_key=key)
\* else: ssl_credentials = SslCredentials().ssl_credentials
ssl_credentials(client_cert_source) ==
    IF Truthy(client_cert_source)
    THEN [py |-> "grpc.ssl_channel_credentials", from |-> client_cert_source]
    ELSE [py |-> "SslCredentials().ssl_credentials"]

\* super().__init__(host=host, credentials=credentials,
\*                  credentials_file=credentials_file, scopes=scopes or self.AUTH_SCOPES)
BaseInitArgs(host, credentials, credentials_file, scopes) ==
    [py |-> "super().__init__", host |-> host, credentials |-> credentials,
     credentials_file |-> credentials_file,
     scopes |-> IF Truthy(scopes) THEN scopes ELSE AUTH_SCOPES]

\* self._stubs: the instance attribute, else the class attribute
Stubs(d, c) == IF "_stubs" \in DOMAIN d THEN d["_stubs"] ELSE c

InitStubsAttrMissing(d) == d

\* self._stubs = {}
InitStubsAttr(d) == ("_stubs" :> EmptyDict) @@ d

\* The outcome of __init__(**a) for instance number i: whether it returned or raised,
\* the instance __dict__, the arguments of the base constructor and the calls made.
Constructed(a, i) ==
    LET branch == Branch(a.channel, a.api_mtls_endpoint)
        credentials == CredentialsAfterBranch(a.channel, a.credentials)
        host == HostAfterBranch(a.host, a.channel, a.api_mtls_endpoint)
        cert == CertSourceCalls(a.channel, a.api_mtls_endpoint, a.client_cert_source)
        duplicate == DuplicateCredentialArgs(credentials, a.credentials_file)
        created == create_channel(<<i, 1>>, host, credentials, a.credentials_file,
                                  IF Truthy(a.scopes) THEN a.scopes ELSE AUTH_SCOPES,
                                  ssl_credentials(a.client_cert_source))
        attrs == CASE branch = "channel" -> ("_grpc_channel" :> a.channel)
                   [] branch = "mtls" -> ("_grpc_channel" :> created)
                   [] OTHER -> << >>
        made == [NoCalls EXCEPT !.client_cert_source = cert,
                                !.create_channel = IF branch = "mtls" THEN 1 ELSE 0]
    IN  IF duplicate /\ branch = "mtls"
        THEN \* create_channel raises: no channel, the base constructor is not reached
             [pc |-> "raised", self |-> << >>, base |-> None, calls |-> made]
        ELSE IF duplicate
        THEN \* the base constructor raises
             [pc |-> "raised", self |-> << >>,
              base |-> BaseInitArgs(host, credentials, a.credentials_file, a.scopes),
              calls |-> made]
        ELSE [pc |-> "ready", self |-> InitStubsAttr(attrs),
              base |-> BaseInitArgs(host, credentials, a.credentials_file, a.scopes),
              calls |-> made]

\* FirestoreAdminGrpcAsyncIOTransport(**args): a new instance, built from the caller's
\* arguments, replaces the one in use.
__init__ ==
    /\ steps < MaxSteps
    /\ LET r == Constructed(args, inst + 1)
       IN  /\ pc' = r.pc
           /\ self' = r.self
           /\ base' = r.base
           /\ calls' = r.calls
    /\ inst' = inst + 1
    /\ ret' = [op |-> "__init__", val |-> None]
    /\ reads' = NoReads
    /\ earlier' = IF pc = "ready" THEN earlier \cup {Stubs(self, cls_stubs)} ELSE earlier
    /\ steps' = steps + 1
    /\ UNCHANGED <<args, cls_stubs, running, co>>

-----------------------------------------------------------------------------
(* The property getters, as functions of the instance state.                *)
(* st = [self, cls_stubs, calls]; the result adds val, the value returned.  *)
(* need is the outcome of the getter's  if  test.                           *)

Here == [self |-> self, cls_stubs |-> cls_stubs, calls |-> calls]

\* an attribute the base constructor set on the instance from its arguments b
BaseAttribute(name, b) == [py |-> "attribute", name |-> name, set_from |-> b]

NeedsChannelAlways(d) == TRUE

\* not hasattr(self, "_grpc_channel")
NeedsChannel(d) == "_grpc_channel" \notin DOMAIN d

NeedsOperationsClientAlways(d) == TRUE

\* "operations_client" not in self.__dict__
NeedsOperationsClient(d) == "operations_client" \notin DOMAIN d

NeedsStubAlways(key, stubs) == TRUE

\* key not in self._stubs
NeedsStub(key, stubs) == key \notin DOMAIN stubs

\* grpc_channel: if need: self._grpc_channel = self.create_channel(self._host,
\*     credentials=self._credentials);  return self._grpc_channel
GrpcChannelBody(st, need) ==
    LET n == st.calls.create_channel + 1
        made == create_channel(<<inst, n>>, BaseAttribute("_host", base),
                               BaseAttribute("_credentials", base), None, None, None)
        d == IF need THEN ("_grpc_channel" :> made) @@ st.self ELSE st.self
    IN  [self |-> d,
         cls_stubs |-> st.cls_stubs,
         calls |-> IF need THEN [st.calls EXCEPT !.create_channel = n] ELSE st.calls,
         val |-> d["_grpc_channel"]]

\* operations_client: if need: self.__dict__["operations_client"] =
\*     operations_v1.OperationsAsyncClient(self.grpc_channel);
\* return self.__dict__["operations_client"]
OperationsClientBody(st, need) ==
    LET g == GrpcChannelBody(st, NeedsChannel(st.self))
        n == st.calls.OperationsAsyncClient + 1
        made == [py |-> "OperationsAsyncClient", id |-> <<inst, n>>, channel |-> g.val]
        d == IF need THEN ("operations_client" :> made) @@ g.self ELSE st.self
    IN  [self |-> d,
         cls_stubs |-> st.cls_stubs,
         calls |-> IF need THEN [g.calls EXCEPT !.OperationsAsyncClient = n] ELSE st.calls,
         val |-> d["operations_client"]]

\* The literals of the nine stub properties: the cache key, the RPC path and the
\* serializer and deserializer handed to unary_unary.
StubCode(prop) ==
    CASE prop = "create_index" ->
           [key |-> "create_index",
            path |-> "/google.firestore.admin.v1.FirestoreAdmin/CreateIndex",
            request_serializer |-> "firestore_admin.CreateIndexRequest.serialize",
            response_deserializer |-> "operations.Operation.FromString"]
      [] prop = "list_indexes" ->
           [key |-> "list_indexes",
            path |-> "/google.firestore.admin.v1.FirestoreAdmin/ListIndexes",
            request_serializer |-> "firestore_admin.ListIndexesRequest.serialize",
            response_deserializer |-> "firestore_admin.ListIndexesResponse.deserialize"]
      [] prop = "get_index" ->
           [key |-> "get_index",
            path |-> "/google.firestore.admin.v1.FirestoreAdmin/GetIndex",
            request_serializer |-> "firestore_admin.GetIndexRequest.serialize",
            response_deserializer |-> "index.Index.deserialize"]
      [] prop = "delete_index" ->
           [key |-> "delete_index",
            path |-> "/google.firestore.admin.v1.FirestoreAdmin/DeleteIndex",
            request_serializer |-> "firestore_admin.DeleteIndexRequest.serialize",
            response_deserializer |-> "empty.Empty.FromString"]
      [] prop = "get_field" ->
           [key |-> "get_field",
            path |-> "/google.firestore.admin.v1.FirestoreAdmin/GetField",
            request_serializer |-> "firestore_admin.GetFieldRequest.serialize",
            response_deserializer |-> "field.Field.deserialize"]
      [] prop = "update_field" ->
           [key |-> "update_field",
            path |-> "/google.firestore.admin.v1.FirestoreAdmin/UpdateField",
            request_serializer |-> "firestore_admin.UpdateFieldRequest.serialize",
            response_deserializer |-> "operations.Operation.FromString"]
      [] prop = "list_fields" ->
           [key |-> "list_fields",
            path |-> "/google.firestore.admin.v1.FirestoreAdmin/ListFields",
            request_serializer |-> "firestore_admin.ListFieldsRequest.serialize",
            response_deserializer |-> "firestore_admin.ListFieldsResponse.deserialize"]
      [] prop = "export_documents" ->
           [key |-> "export_documents",
            path |-> "/google.firestore.admin.v1.FirestoreAdmin/ExportDocuments",
            request_serializer |-> "firestore_admin.ExportDocumentsRequest.serialize",
            response_deserializer |-> "operations.Operation.FromString"]
      [] prop = "import_documents" ->
           [key |-> "import_documents",
            path |-> "/google.firestore.admin.v1.FirestoreAdmin/ImportDocuments",
            request_serializer |-> "firestore_admin.ImportDocumentsRequest.serialize",
            response_deserializer |-> "operations.Operation.FromString"]

\* A stub property: if need: self._stubs[key] = self.grpc_channel.unary_unary(path,
\*     request_serializer=..., response_deserializer=...);  return self._stubs[key]
StubBody(st, need, prop, code) ==
    LET g == GrpcChannelBody(st, NeedsChannel(st.self))
        n == st.calls.unary_unary[prop] + 1
        made == [py |-> "UnaryUnaryMultiCallable", id |-> <<inst, prop, n>>,
                 channel |-> g.val, path |-> code.path,
                 request_serializer |-> code.request_serializer,
                 response_deserializer |-> code.response_deserializer]
        own == "_stubs" \in DOMAIN st.self
        d == IF need /\ own
             THEN [g.self EXCEPT !["_stubs"] = (code.key :> made) @@ @]
             ELSE IF need THEN g.self ELSE st.self
        c == IF need /\ ~own THEN (code.key :> made) @@ st.cls_stubs ELSE st.cls_stubs
    IN  [self |-> d,
         cls_stubs |-> c,
         calls |-> IF need THEN [g.calls EXCEPT !.unary_unary[prop] = n] ELSE st.calls,
         val |-> Stubs(d, c)[code.key]]

-----------------------------------------------------------------------------
(* One caller reading the properties of the transport *)

Read(op, r) ==
    /\ pc = "ready"
    /\ steps < MaxSteps
    /\ self' = r.self
    /\ cls_stubs' = r.cls_stubs
    /\ calls' = r.calls
    /\ ret' = [op |-> op, val |-> r.val]
    /\ reads' = [reads EXCEPT ![op] = @ + 1]
    /\ steps' = steps + 1
    /\ UNCHANGED <<pc, inst, args, base, earlier, running, co>>

grpc_channel == Read("grpc_channel", GrpcChannelBody(Here, NeedsChannel(self)))

operations_client ==
    Read("operations_client", OperationsClientBody(Here, NeedsOperationsClient(self)))

StubGetterCopyPaste(prop) ==
    LET code == StubCode(IF prop = "get_field" THEN "get_index" ELSE prop)
    IN  StubBody(Here, NeedsStub(code.key, Stubs(self, cls_stubs)), prop, code)

\* the getter of the stub property prop, run as a whole
StubGetter(prop) ==
    LET code == StubCode(prop)
    IN  StubBody(Here, NeedsStub(code.key, Stubs(self, cls_stubs)), prop, code)

create_index == Read("create_index", StubGetter("create_index"))

list_indexes == Read("list_indexes", StubGetter("list_indexes"))

get_index == Read("get_index", StubGetter("get_index"))

delete_index == Read("delete_index", StubGetter("delete_index"))

get_field == Read("get_field", StubGetter("get_field"))

update_field == Read("update_field", StubGetter("update_field"))

list_fields == Read("list_fields", StubGetter("list_fields"))

export_documents == Read("export_documents", StubGetter("export_documents"))

import_documents == Read("import_documents", StubGetter("import_documents"))

Coros == 1 .. NCoros

\* a coroutine outside every getter, with the value its last read returned
Idle(last) == [at |-> "idle", prop |-> "none", need |-> FALSE, last |-> last]

Init ==
    /\ pc = "new"
    /\ inst = 0
    /\ args \in InitArgs
    /\ self = << >>
    /\ cls_stubs = EmptyDict
    /\ base = None
    /\ calls = NoCalls
    /\ ret = [op |-> "none", val |-> None]
    /\ reads = NoReads
    /\ earlier = {}
    /\ steps = 0
    /\ running = 1
    /\ co = [c \in Coros |-> Idle([op |-> "none", val |-> None])]

Next ==
    \/ __init__
    \/ grpc_channel
    \/ operations_client
    \/ create_index
    \/ list_indexes
    \/ get_index
    \/ delete_index
    \/ get_field
    \/ update_field
    \/ list_fields
    \/ export_documents
    \/ import_documents

Spec == Init /\ [][Next]_vars

-----------------------------------------------------------------------------
(* Several coroutines on one event loop reading the properties of one       *)
(* transport.  A getter is two steps, its  if  test and the rest of its     *)
(* body; the event loop runs one coroutine at a time and switches to        *)
(* another only where the running coroutine is suspended.                   *)

\* the  if  test of the getter of property p
Need(p) ==
    CASE p = "grpc_channel" -> NeedsChannel(self)
      [] p = "operations_client" -> NeedsOperationsClient(self)
      [] OTHER -> NeedsStub(StubCode(p).key, Stubs(self, cls_stubs))

\* the rest of the getter of property p, given the outcome of its test
Body(p, need) ==
    CASE p = "grpc_channel" -> GrpcChannelBody(Here, need)
      [] p = "operations_client" -> OperationsClientBody(Here, need)
      [] OTHER -> StubBody(Here, need, p, StubCode(p))

AtSuspensionPointAnywhere(k) == TRUE

\* The getters are plain properties with no await in them: a coroutine can be
\* suspended before or after a getter, never between its test and its return.
AtSuspensionPoint(k) == k.at = "idle"

CoCheck(c, p) ==
    /\ pc = "ready"
    /\ steps < MaxCoReads
    /\ running = c
    /\ co[c].at = "idle"
    /\ co' = [co EXCEPT ![c] = [at |-> "body", prop |-> p, need |-> Need(p), last |-> @.last]]
    /\ steps' = steps + 1
    /\ UNCHANGED <<pc, inst, args, self, cls_stubs, base, calls, ret, reads, earlier, running>>

CoBody(c) ==
    /\ running = c
    /\ co[c].at = "body"
    /\ LET r == Body(co[c].prop, co[c].need)
           out == [op |-> co[c].prop, val |-> r.val]
       IN  /\ self' = r.self
           /\ cls_stubs' = r.cls_stubs
           /\ calls' = r.calls
           /\ ret' = out
           /\ reads' = [reads EXCEPT ![co[c].prop] = @ + 1]
           /\ co' = [co EXCEPT ![c] = Idle(out)]
    /\ UNCHANGED <<pc, inst, args, base, earlier, steps, running>>

Switch(c) ==
    /\ c # running
    /\ AtSuspensionPoint(co[running])
    /\ running' = c
    /\ UNCHANGED <<pc, inst, args, self, cls_stubs, base, calls, ret, reads, earlier, steps, co>>

\* The arguments of the transports the coroutines share: a channel or none, a mutual
\* TLS endpoint or none, and the defaults for the rest.
CoArgs ==
    {a \in InitArgs : /\ a.host = DefaultHost
                      /\ a.credentials = None
                      /\ a.credentials_file = None
                      /\ a.client_cert_source = None}

\* The transport as __init__ leaves it.
InitCo ==
    /\ args \in CoArgs
    /\ Constructed(args, 1).pc = "ready"
    /\ pc = "ready"
    /\ inst = 1
    /\ self = Constructed(args, 1).self
    /\ cls_stubs = EmptyDict
    /\ base = Constructed(args, 1).base
    /\ calls = Constructed(args, 1).calls
    /\ ret = [op |-> "__init__", val |-> None]
    /\ reads = NoReads
    /\ earlier = {}
    /\ steps = 0
    /\ running = 1
    /\ co = [c \in Coros |-> Idle([op |-> "none", val |-> None])]

NextCo ==
    \/ \E c \in Coros, p \in Properties : CoCheck(c, p)
    \/ \E c \in Coros : CoBody(c)
    \/ \E c \in Coros : Switch(c)

SpecCo == InitCo /\ [][NextCo]_vars

-----------------------------------------------------------------------------
(* Properties *)

\* the stub table of the instance in use, before and after a step
Table == Stubs(self, cls_stubs)

TableAfter == Stubs(self', cls_stubs')

\* C1: for each of the nine stub properties, unary_unary is invoked at most once for
\* that method, on the first read; every read returns the cached callable, and a cached
\* stub is never replaced or removed, so every later read returns the callable of the
\* first read.
C1_StubBuiltOnce ==
    /\ [](\A m \in Methods : calls.unary_unary[m] = IF reads[m] > 0 THEN 1 ELSE 0)
    /\ [][inst' = inst =>
            \A m \in Methods :
              /\ ret'.op = m => m \in DOMAIN TableAfter /\ ret'.val = TableAfter[m]
              /\ m \in DOMAIN Table => m \in DOMAIN TableAfter /\ TableAfter[m] = Table[m]]_vars

\* a stub property has been read twice and one stub was built for it
C1_Witness ==
    \E m \in Methods : reads[m] >= 2 /\ ret.op = m /\ calls.unary_unary[m] = 1

\* C2: on every construction path create_channel is called at most once over the
\* lifetime of the transport, _grpc_channel is never reassigned once set, and every
\* read of grpc_channel returns that channel.
C2_ChannelCached ==
    /\ [](calls.create_channel <= 1)
    /\ [][inst' = inst =>
            /\ ret'.op = "grpc_channel" =>
                 "_grpc_channel" \in DOMAIN self' /\ ret'.val = self'["_grpc_channel"]
            /\ "_grpc_channel" \in DOMAIN self =>
                 "_grpc_channel" \in DOMAIN self'
                 /\ self'["_grpc_channel"] = self["_grpc_channel"]]_vars

\* grpc_channel was read twice on a transport that was given no channel: one channel
\* was created and both reads returned it
C2_Witness ==
    /\ pc = "ready"
    /\ reads["grpc_channel"] >= 2
    /\ ret.op = "grpc_channel"
    /\ ~Truthy(args.channel)
    /\ calls.create_channel = 1

\* C3: an OperationsAsyncClient is constructed at most once per transport, on the first
\* read of operations_client, from the transport's grpc_channel, and every later read
\* returns that same client.
C3_OperationsClientCached ==
    /\ [](calls.OperationsAsyncClient = IF reads["operations_client"] > 0 THEN 1 ELSE 0)
    /\ []("operations_client" \in DOMAIN self =>
            "_grpc_channel" \in DOMAIN self
            /\ self["operations_client"].channel = self["_grpc_channel"])
    /\ [][inst' = inst =>
            /\ ret'.op = "operations_client" =>
                 "operations_client" \in DOMAIN self'
                 /\ ret'.val = self'["operations_client"]
            /\ "operations_client" \in DOMAIN self =>
                 "operations_client" \in DOMAIN self'
                 /\ self'["operations_client"] = self["operations_client"]]_vars

\* operations_client was read twice
C3_Witness ==
    /\ reads["operations_client"] >= 2
    /\ ret.op = "operations_client"
    /\ calls.OperationsAsyncClient = 1

\* the CamelCase method name of each stub property
MethodName ==
    [create_index |-> "CreateIndex", list_indexes |-> "ListIndexes",
     get_index |-> "GetIndex", delete_index |-> "DeleteIndex", get_field |-> "GetField",
     update_field |-> "UpdateField", list_fields |-> "ListFields",
     export_documents |-> "ExportDocuments", import_documents |-> "ImportDocuments"]

\* C4: each stub property registers its stub under its own name, bound to the RPC path
\* "/google.firestore.admin.v1.FirestoreAdmin/<Method>" and to the serializer of
\* <Method>Request; no two entries of the table share an RPC path.
C4_StubTableOneToOne ==
    /\ ret.op \in Methods => ret.op \in DOMAIN Table /\ Table[ret.op] = ret.val
    /\ \A k \in DOMAIN Table :
         /\ k \in Methods
         /\ Table[k].id[2] = k
         /\ Table[k].path = "/google.firestore.admin.v1.FirestoreAdmin/" \o MethodName[k]
         /\ Table[k].request_serializer =
              "firestore_admin." \o MethodName[k] \o "Request.serialize"
    /\ \A j, k \in DOMAIN Table : j # k => Table[j].path # Table[k].path

\* two different stub properties have been read
C4_Witness ==
    /\ Cardinality(DOMAIN Table) >= 2
    /\ "get_field" \in DOMAIN Table
    /\ ret.op \in Methods

C6_CredentialsFileIgnoredWithChannel ==
    (pc = "ready" /\ Truthy(args.channel)) => base.credentials_file = None

\* C7: if api_mtls_endpoint is given, the host of the base constructor and of the
\* created channel is the endpoint (with ":443" appended when it has no ":"), and the
\* channel is created with SSL credentials.
C7_MtlsEndpointOverridesHost ==
    (pc = "ready" /\ Truthy(args.api_mtls_endpoint)) =>
        LET e == args.api_mtls_endpoint
            expected == IF \E i \in DOMAIN e.s : e.s[i] = ":"
                        THEN e
                        ELSE Str(e.s \o <<":", "443">>)
        IN  /\ base.host = expected
            /\ calls.create_channel = 1
            /\ self["_grpc_channel"].host = expected
            /\ Truthy(self["_grpc_channel"].ssl_credentials)

\* C8: if api_mtls_endpoint is None, client_cert_source is never invoked, by the
\* constructor or later, and no channel is created with SSL credentials.
C8_CertSourceIgnoredWithoutEndpoint ==
    args.api_mtls_endpoint = None =>
        /\ calls.client_cert_source = 0
        /\ ("_grpc_channel" \in DOMAIN self /\ ~Truthy(args.channel)) =>
             self["_grpc_channel"].ssl_credentials = None

\* a transport built with client_cert_source and no endpoint, whose channel was created
\* by a later read
C8_Witness ==
    /\ pc = "ready"
    /\ args.api_mtls_endpoint = None
    /\ Truthy(args.client_cert_source)
    /\ ~Truthy(args.channel)
    /\ "_grpc_channel" \in DOMAIN self
    /\ "operations_client" \in DOMAIN self

\* C9: the stub table is empty right after construction, whatever earlier instances
\* cached; its key set is exactly the set of stub properties read so far; a read never
\* changes an entry that is already there.
C9_StubsLazyAndIndependent ==
    /\ [](pc = "ready" => DOMAIN Table = {m \in Methods : reads[m] > 0})
    /\ [][(ret'.op = "__init__" /\ pc' = "ready") => TableAfter = EmptyDict]_vars
    /\ [][inst' = inst =>
            /\ \A k \in DOMAIN Table : k \in DOMAIN TableAfter /\ TableAfter[k] = Table[k]
            /\ ret'.op \in {"grpc_channel", "operations_client"} => TableAfter = Table]_vars

\* a second instance, built after an earlier one cached a stub, has read another stub
C9_Witness ==
    /\ pc = "ready"
    /\ \E d \in earlier : d # EmptyDict /\ DOMAIN d # DOMAIN Table
    /\ ret.op \in Methods

\* C10: with coroutines interleaved at suspension points only, at most one channel, one
\* operations client and one stub per method are created, exactly one once the
\* property has been read, and all coroutines observe the same objects.
C10_CoroutinesShareObjects ==
    /\ calls.create_channel <= 1
    /\ calls.OperationsAsyncClient = IF reads["operations_client"] > 0 THEN 1 ELSE 0
    /\ \A m \in Methods : calls.unary_unary[m] = IF reads[m] > 0 THEN 1 ELSE 0
    /\ reads["grpc_channel"] > 0 =>
         calls.create_channel = IF Truthy(args.channel) THEN 0 ELSE 1
    /\ \A c \in Coros :
         co[c].last.op # "none" => co[c].last.val = Body(co[c].last.op, FALSE).val
    /\ \A c, d \in Coros :
         (co[c].last.op = co[d].last.op /\ co[c].last.op # "none") =>
             co[c].last.val = co[d].last.val

\* two coroutines have read the same property of a transport that built its channel
\* lazily
C10_Witness ==
    /\ \E c, d \in Coros :
         c # d /\ co[c].last.op = co[d].last.op /\ co[c].last.op \in Methods
    /\ Branch(args.channel, args.api_mtls_endpoint) = "none"
    /\ calls.create_channel = 1

====
